---------------------------- MODULE Spec2Model ----------------------------
(***************************************************************************)
(* A model of the chitin shell: the tokenizer (src/src/lexer.rs), the two  *)
(* recursive-descent parsers (src/src/ast.rs and src/src/main.rs) and the  *)
(* evaluator and read-eval loops of src/src/main.rs.                       *)
(*                                                                         *)
(* A line is a sequence of one-character strings.  A string slice (&str)   *)
(* is the sequence of its characters.                                      *)
(***************************************************************************)
EXTENDS Integers, Sequences, FiniteSets, TLC

VARIABLES
    line,       \* the &str handed to Lexer::new
    lexer,      \* struct Lexer: [input, delim]
    pulled,     \* what the last call of Lexer::next returned
    toks,       \* the tokens returned so far, in order
    offs,       \* for each returned token, the offset in line of its slice
    tokens,     \* the token sequence handed to a parser
    ast,        \* what Combinator::parse (main.rs) returned
    expr,       \* what Expr::try_from (ast.rs) returned
    root,       \* the Combinator on which run was called
    stack,      \* the calls of Combinator::run in progress, innermost last
    result,     \* the CommandResult of the call that returned last
    handles,    \* the open File values, innermost scope last
    dir,        \* the directory entries: <<directory, name>> -> inode
    data,       \* the bytes of each inode
    cwd,        \* the working directory of the process
    term,       \* the bytes that reached standard output
    trace,      \* the commands run and the file operations made, in order
    pc,         \* where the read-eval loop stands
    reads,      \* the number of calls of read_line made
    eof,        \* standard input has reached its end
    before,     \* dir and data as they were when the line was read
    script      \* batch mode: the lines of the file named on the command line

lexVars == <<line, lexer, pulled, toks, offs>>

parseVars == <<tokens, ast, expr>>

fsVars == <<dir, data, cwd, term>>

evalVars == <<root, stack, result, handles, trace>>

loopVars == <<pc, reads, eof, before, script>>

vars == <<lexVars, parseVars, evalVars, fsVars, loopVars>>

(***************************************************************************)
(* Bounds of the model.                                                    *)
(***************************************************************************)
MaxLineLen == 4

MaxTokens == 5

MaxDepth == 2

MaxPieces == 3

MaxReads == 2

(***************************************************************************)
(* Helpers on sequences and sets.                                          *)
(***************************************************************************)
Min(S) == CHOOSE x \in S : \A y \in S : x <= y

Take(s, n) == SubSeq(s, 1, n)

Drop(s, n) == SubSeq(s, n + 1, Len(s))

SeqsUpTo(S, n) == UNION {[1..k -> S] : k \in 0..n}

(***************************************************************************)
(* lexer.rs                                                                *)
(***************************************************************************)
None == [kind |-> "None"]

NotYet == [kind |-> "NotYet"]

Some(v) == [kind |-> "Some", val |-> v]

\* the array with `>` put before `>>`
RESERVED_OP_ShortFirst == << <<";">>, <<">">>, <<">", ">">>, <<">", "+">>, <<"|">> >>

\* const RESERVED_OP, in the order of the array.
RESERVED_OP == << <<";">>, <<">", ">">>, <<">">>, <<">", "+">>, <<"|">> >>

\* Token::Arg(s), Token::Op(s)
Arg(s) == [kind |-> "Arg", text |-> s]

Op(s) == [kind |-> "Op", text |-> s]

is_arg(t) == t.kind = "Arg"

is_op(t) == t.kind = "Op"

\* Token::unwrap: the slice of either variant.
unwrap(t) == t.text

\* char::is_whitespace on the characters of the model
is_whitespace(c) == c = " "

\* self.input.get(i..i + op.len()) == Some(op), i counted from 0
SliceIs(s, i, op) == i + Len(op) <= Len(s) /\ SubSeq(s, i + 1, i + Len(op)) = op

\* every operator is recognised nowhere
NoOpsAt(s, i) == {}

\* the inner loop over RESERVED_OP at offset i: the indices of the matching entries
OpsAt(s, i) == {k \in 1..Len(RESERVED_OP) : SliceIs(s, i, RESERVED_OP[k])}

\* the offsets at which the 'chars loop breaks
Breaks(s) == {i \in 0..(Len(s) - 1) : is_whitespace(s[i + 1]) \/ OpsAt(s, i) # {}}

\* the value of `found` after the 'chars loop
Found(s) ==
    IF Breaks(s) = {} THEN [some |-> FALSE, i |-> 0, isOp |-> FALSE, op |-> <<>>]
    ELSE LET i == Min(Breaks(s)) IN
         IF is_whitespace(s[i + 1])
         THEN [some |-> TRUE, i |-> i, isOp |-> FALSE, op |-> <<>>]
         ELSE [some |-> TRUE, i |-> i, isOp |-> TRUE,
               op |-> RESERVED_OP[Min(OpsAt(s, i))]]

\* the input from its first non-whitespace character on, "" when there is none
SkipWhitespace(s) ==
    LET nonWs == {i \in 1..Len(s) : ~is_whitespace(s[i])} IN
    IF nonWs = {} THEN <<>> ELSE SubSeq(s, Min(nonWs), Len(s))

\* the queued operator is left in the lexer
KeepDelim(lx) == lx

\* self.delim.take(): the queued operator is taken out of the lexer
TakeDelim(lx) == [lx EXCEPT !.delim = None]

\* Lexer::next on the lexer lx: the item returned, the lexer afterwards, and
\* the number of characters of the line from the start of the item's slice on.
RECURSIVE LexerNext(_)
LexerNext(lx) ==
    IF lx.delim # None
    THEN [item |-> lx.delim, lexer |-> TakeDelim(lx),
          rem |-> Len(lx.input) + Len(lx.delim.text)]
    ELSE IF lx.input = <<>>
    THEN [item |-> None, lexer |-> lx, rem |-> 0]
    ELSE LET found == Found(lx.input) IN
      IF found.some
      THEN LET slice == Take(lx.input, found.i)
               rest  == Drop(lx.input, found.i)
           IN IF found.isOp
              THEN IF slice = <<>>
                   THEN [item |-> Op(Take(rest, Len(found.op))),
                         lexer |-> [input |-> Drop(rest, Len(found.op)), delim |-> None],
                         rem |-> Len(lx.input)]
                   ELSE [item |-> Arg(slice),
                         lexer |-> [input |-> Drop(rest, Len(found.op)),
                                    delim |-> Op(Take(rest, Len(found.op)))],
                         rem |-> Len(lx.input)]
              ELSE IF slice = <<>>
                   THEN LexerNext([input |-> SkipWhitespace(rest), delim |-> None])
                   ELSE [item |-> Arg(slice),
                         lexer |-> [input |-> SkipWhitespace(rest), delim |-> None],
                         rem |-> Len(lx.input)]
      ELSE [item |-> Arg(lx.input), lexer |-> [input |-> <<>>, delim |-> None],
            rem |-> Len(lx.input)]

\* Lexer::new
LexerNew(input) == [input |-> input, delim |-> None]

\* the whole token sequence of a lexer (the iterator run to its end)
RECURSIVE Collect(_)
Collect(lx) ==
    LET r == LexerNext(lx) IN
    IF r.item = None THEN <<>> ELSE <<r.item>> \o Collect(r.lexer)

(***************************************************************************)
(* The token type main.rs matches on.  main.rs names the variants Text,    *)
(* Seq, Redirect, RedirectAppend and RedirectInsert; lexer.rs yields Arg   *)
(* and Op.  The variant of an operator token is given by its spelling.     *)
(***************************************************************************)
EXIT == <<"e", "x", "i", "t">>

CD == <<"c", "d">>

PWD == <<"p", "w", "d">>

Text(s) == [kind |-> "Text", text |-> s]

AsToken(t) ==
    IF is_arg(t) THEN Text(t.text)
    ELSE [kind |-> CASE t.text = <<";">> -> "Seq"
                     [] t.text = <<">">> -> "Redirect"
                     [] t.text = <<">", ">">> -> "RedirectAppend"
                     [] t.text = <<">", "+">> -> "RedirectInsert"
                     [] OTHER -> "Pipe",
          text |-> t.text]

AsTokens(ts) == [k \in 1..Len(ts) |-> AsToken(ts[k])]

is_text(t) == t.kind = "Text"

\* Peekable::next_if_eq(&tok) finds tok at the head of ts
HeadIs(ts, tok) == ts # <<>> /\ Head(ts).kind = tok.kind /\ Head(ts).text = tok.text

HeadKindIs(ts, kind) == ts # <<>> /\ Head(ts).kind = kind

(***************************************************************************)
(* main.rs: Cmd and Combinator, and their parser.  A parser takes the      *)
(* tokens not yet consumed and returns Ok with the value and the tokens    *)
(* left, Err with the reason, or Panic.                                    *)
(***************************************************************************)
Ok(v, rest) == [kind |-> "Ok", val |-> v, rest |-> rest]

Err(reason) == [kind |-> "Err", reason |-> reason]

Panic(msg) == [kind |-> "Panic", reason |-> msg]

CmdExit == [cmd |-> "Exit"]

CmdCd(path) == [cmd |-> "Cd", path |-> path]

CmdPwd == [cmd |-> "Pwd"]

\* the empty line taken for `exit`
CmdNoOpAsExit == [cmd |-> "Exit"]

CmdNoOp == [cmd |-> "NoOp"]

CmdOther(name, args) == [cmd |-> "Other", name |-> name, args |-> args]

Once(cmd) == [comb |-> "Once", cmd |-> cmd]

Seq2(cmd, rest) == [comb |-> "Seq", cmd |-> cmd, rest |-> rest]

Redirect(kind, inner, file) == [comb |-> kind, inner |-> inner, file |-> file]

RedirectKinds == {"Redirect", "RedirectAppend", "RedirectInsert"}

\* the number of leading Text tokens: what the loop of Cmd::args consumes
RECURSIVE ArgCount(_)
ArgCount(ts) ==
    IF ts # <<>> /\ is_text(Head(ts)) THEN 1 + ArgCount(Tail(ts)) ELSE 0

\* Cmd::args: the arguments and the tokens left
CmdArgs(ts) ==
    LET n == ArgCount(ts) IN
    [args |-> [k \in 1..n |-> unwrap(ts[k])], rest |-> Drop(ts, n)]

\* Cmd::parse
CmdParse(ts) ==
    IF HeadIs(ts, Text(EXIT)) THEN Ok(CmdExit, CmdArgs(Tail(ts)).rest)
    ELSE IF HeadIs(ts, Text(CD))
    THEN IF Tail(ts) = <<>> THEN Err("cd must take at least one argument")
         ELSE Ok(CmdCd(unwrap(ts[2])), CmdArgs(Drop(ts, 2)).rest)
    ELSE IF HeadIs(ts, Text(PWD)) THEN Ok(CmdPwd, CmdArgs(Tail(ts)).rest)
    ELSE IF ts = <<>> THEN Ok(CmdNoOp, ts)
    ELSE Ok(CmdOther(unwrap(Head(ts)), CmdArgs(Tail(ts)).args), CmdArgs(Tail(ts)).rest)

\* the last statement of Combinator::parse_peekable: the optional redirection
\* around the combinator parsed so far
RedirectTail(comb, ts) ==
    IF \/ HeadKindIs(ts, "Redirect")
       \/ HeadKindIs(ts, "RedirectAppend")
       \/ HeadKindIs(ts, "RedirectInsert")
    THEN IF Tail(ts) = <<>> THEN Panic("redirect must specify output file")
         ELSE Ok(Redirect(Head(ts).kind, comb, unwrap(ts[2])), Drop(ts, 2))
    ELSE Ok(comb, ts)

\* Combinator::parse_peekable
RECURSIVE CombinatorParsePeekable(_)
CombinatorParsePeekable(ts) ==
    LET c == CmdParse(ts) IN
    IF c.kind # "Ok" THEN c
    ELSE IF HeadKindIs(c.rest, "Seq")
    THEN LET r == CombinatorParsePeekable(Tail(c.rest)) IN
         IF r.kind # "Ok" THEN r
         ELSE RedirectTail(Seq2(c.val, r.val), r.rest)
    ELSE RedirectTail(Once(c.val), c.rest)

\* Combinator::parse: the tokens left over are dropped with the iterator
CombinatorParse(ts) ==
    LET r == CombinatorParsePeekable(ts) IN
    IF r.kind = "Ok" THEN Ok(r.val, <<>>) ELSE r

(***************************************************************************)
(* ast.rs: Expr, Combinator and Cmd, and their parser (FromLexer).         *)
(***************************************************************************)
ExprNoOp == [expr |-> "NoOp"]

ExprSeq(combinator, rest) == [expr |-> "Seq", combinator |-> combinator, rest |-> rest]

Identity(cmd) == [comb |-> "Identity", cmd |-> cmd]

AstRedirect(kind, cmd, out) == [comb |-> kind, cmd |-> cmd, file |-> out]

AstCd(path) == [cmd |-> "Cd", path |-> path]

\* the number of leading Arg tokens
RECURSIVE LeadingArgs(_)
LeadingArgs(ts) ==
    IF ts # <<>> /\ is_arg(Head(ts)) THEN 1 + LeadingArgs(Tail(ts)) ELSE 0

\* TryFrom<(&str, Vec<&str>)> for Cmd
CmdTryFrom(cmd, args) ==
    IF cmd = EXIT
    THEN IF Len(args) = 0 THEN [kind |-> "Ok", val |-> CmdExit]
         ELSE Err("wrong number of arguments supplied to 'exit'")
    ELSE IF cmd = CD
    THEN IF Len(args) = 0 THEN [kind |-> "Ok", val |-> AstCd(None)]
         ELSE IF Len(args) = 1 THEN [kind |-> "Ok", val |-> AstCd(Some(args[1]))]
         ELSE Err("wrong number of arguments supplied to 'cd'")
    ELSE IF cmd = PWD
    THEN IF Len(args) = 0 THEN [kind |-> "Ok", val |-> CmdPwd]
         ELSE Err("wrong number of arguments supplied to 'pwd'")
    ELSE [kind |-> "Ok", val |-> CmdOther(cmd, args)]

\* FromLexer for Cmd
CmdFromLexer(ts) ==
    IF ts = <<>> THEN Ok(CmdNoOp, ts)
    ELSE IF is_arg(Head(ts))
    THEN LET n == LeadingArgs(Tail(ts))
             c == CmdTryFrom(Head(ts).text, [k \in 1..n |-> ts[k + 1].text])
         IN IF c.kind = "Ok" THEN Ok(c.val, Drop(ts, n + 1)) ELSE c
    ELSE Err("expected argument or empty line")

IsRedirectOp(t) ==
    is_op(t) /\ t.text \in {<<">">>, <<">", ">">>, <<">", "+">>}

RedirectKind(op) ==
    CASE op = <<">">> -> "Redirect"
      [] op = <<">", ">">> -> "RedirectAppend"
      [] op = <<">", "+">> -> "RedirectInsert"

\* FromLexer for Combinator
CombinatorFromLexer(ts) ==
    LET c == CmdFromLexer(ts) IN
    IF c.kind # "Ok" THEN c
    ELSE IF c.rest # <<>> /\ IsRedirectOp(Head(c.rest))
    THEN IF Len(c.rest) >= 2 /\ is_arg(c.rest[2])
         THEN Ok(AstRedirect(RedirectKind(Head(c.rest).text), c.val, unwrap(c.rest[2])),
                 Drop(c.rest, 2))
         ELSE Err("expected argument")
    ELSE Ok(Identity(c.val), c.rest)

\* FromLexer for Expr
RECURSIVE ExprFromLexer(_)
ExprFromLexer(ts) ==
    IF ts = <<>> THEN Ok(ExprNoOp, ts)
    ELSE LET c == CombinatorFromLexer(ts) IN
         IF c.kind # "Ok" THEN c
         ELSE IF HeadIs(c.rest, Op(<<";">>))
         THEN LET r == ExprFromLexer(Tail(c.rest)) IN
              IF r.kind # "Ok" THEN r ELSE Ok(ExprSeq(c.val, r.val), r.rest)
         ELSE Ok(ExprSeq(c.val, ExprNoOp), c.rest)

\* TryFrom<Lexer> for Expr: the lexer returned by from_lexer is dropped
ExprTryFrom(ts) ==
    LET r == ExprFromLexer(ts) IN
    IF r.kind = "Ok" THEN Ok(r.val, <<>>) ELSE r

(***************************************************************************)
(* main.rs: the evaluator.  The state of the process and of the file       *)
(* system it sees is a record st with the fields stack, handles, result,   *)
(* dir, data, cwd, term and trace (the variables of the same names).       *)
(*                                                                         *)
(* A CommandResult is "Ok", "Err" or "Exit"; "Panic" stands for a panic    *)
(* that unwinds the process, "None" for no call having returned yet.       *)
(* A File is a record [ino, pos, append]; sink 0 is standard output.       *)
(* A byte is a string.                                                     *)
(***************************************************************************)

\* CommandResult::and_then: whether the closure f is called
and_then_always(res) == TRUE

and_then(res) == res = "Ok"

\* PathBuf::from("myshell_tmp.txt")
TmpPath == <<"myshell_tmp.txt">>

\* a relative path names an entry of the working directory
Key(st, path) == <<st.cwd, path>>

Exists(st, path) == Key(st, path) \in DOMAIN st.dir

Front(s) == SubSeq(s, 1, Len(s) - 1)

Last(s) == s[Len(s)]

Event(ev, depth, res) == [ev |-> ev, depth |-> depth, res |-> res]

Logged(st, ev, depth, res) == [st EXCEPT !.trace = Append(@, Event(ev, depth, res))]

\* an inode number not in use
FreshIno(st) ==
    Min({i \in 1..(Cardinality(DOMAIN st.data) + 1) : i \notin DOMAIN st.data})

\* the inodes no directory entry and no open File refers to are freed
Reclaim(st) ==
    LET used == {st.dir[k] : k \in DOMAIN st.dir}
                  \cup {st.handles[h].ino : h \in DOMAIN st.handles}
    IN [st EXCEPT !.data = [i \in (DOMAIN st.data) \cap used |-> st.data[i]]]

\* a write of bytes at offset pos of a file (a gap is filled with NUL bytes)
WriteAt(content, pos, bytes) ==
    LET padded == IF Len(content) < pos
                  THEN content \o [k \in 1..(pos - Len(content)) |-> "NUL"]
                  ELSE content IN
    Take(padded, pos) \o bytes \o Drop(padded, pos + Len(bytes))

\* Write::write_all on sink h
WriteAll(st, h, bytes) ==
    IF h = 0 THEN [st EXCEPT !.term = @ \o bytes]
    ELSE LET file == st.handles[h] IN
         IF file.append
         THEN [st EXCEPT !.data[file.ino] = @ \o bytes]
         ELSE [st EXCEPT !.data[file.ino] = WriteAt(@, file.pos, bytes),
                         !.handles[h].pos = @ + Len(bytes)]

\* File::create(path) that succeeds: the file is created or truncated, and
\* the File is pushed on handles
FileCreate(st, path) ==
    IF Exists(st, path)
    THEN LET ino == st.dir[Key(st, path)] IN
         [st EXCEPT !.data[ino] = <<>>,
                    !.handles = Append(@, [ino |-> ino, pos |-> 0, append |-> FALSE])]
    ELSE LET ino == FreshIno(st) IN
         [st EXCEPT !.dir = (Key(st, path) :> ino) @@ @,
                    !.data = (ino :> <<>>) @@ @,
                    !.handles = Append(@, [ino |-> ino, pos |-> 0, append |-> FALSE])]

\* OpenOptions::new().append(true).create(true).open(path) that succeeds
FileOpenAppend(st, path) ==
    IF Exists(st, path)
    THEN [st EXCEPT !.handles =
             Append(@, [ino |-> st.dir[Key(st, path)], pos |-> 0, append |-> TRUE])]
    ELSE LET ino == FreshIno(st) IN
         [st EXCEPT !.dir = (Key(st, path) :> ino) @@ @,
                    !.data = (ino :> <<>>) @@ @,
                    !.handles = Append(@, [ino |-> ino, pos |-> 0, append |-> TRUE])]

\* File::open(path) that succeeds (the path exists)
FileOpen(st, path) ==
    [st EXCEPT !.handles =
        Append(@, [ino |-> st.dir[Key(st, path)], pos |-> 0, append |-> FALSE])]

\* io::copy(&mut orig, &mut temp) that succeeds: the bytes of orig from its
\* position to its end are written to temp
IoCopy(st, orig, temp) ==
    LET from == st.handles[orig]
        bytes == Drop(st.data[from.ino], from.pos)
    IN [WriteAll(st, temp, bytes) EXCEPT !.handles[orig].pos = @ + Len(bytes)]

\* io::copy comes to the end of orig: always when orig and temp are two
\* files; when they are one file (the target is the temporary file itself)
\* only if there is nothing to copy, since every byte written is read again
CopyEnds(st, orig, temp) ==
    \/ st.handles[orig].ino # st.handles[temp].ino
    \/ Drop(st.data[st.handles[orig].ino], st.handles[orig].pos) = <<>>

\* std::fs::remove_file(path) that succeeds (the path exists)
RemoveFile(st, path) ==
    [st EXCEPT !.dir = [k \in (DOMAIN st.dir) \ {Key(st, path)} |-> st.dir[k]]]

\* std::fs::rename(from, to) that succeeds (from exists)
Rename(st, from, to) ==
    [st EXCEPT !.dir =
        [k \in ((DOMAIN st.dir) \ {Key(st, from)}) \cup {Key(st, to)} |->
            IF k = Key(st, to) THEN st.dir[Key(st, from)] ELSE st.dir[k]]]

\* what a child process writes to the standard output it inherits: the
\* model lets every program write its own name
ChildOutput(name, args) == name

\* Cmd::run(cmd, out): the possible results, each with the state it leaves
CmdRun(cmd, out, st) ==
    CASE cmd.cmd = "NoOp" -> {[res |-> "Ok", st |-> st]}
      [] cmd.cmd = "Exit" -> {[res |-> "Exit", st |-> st]}
      [] cmd.cmd = "Pwd" ->
            \* env::current_dir() fails; the write succeeds; the write fails
            \* and unwrap panics
            {[res |-> "Err", st |-> st],
             [res |-> "Ok", st |-> WriteAll(st, out, st.cwd \o <<"\n">>)],
             [res |-> "Panic", st |-> st]}
      [] cmd.cmd = "Cd" ->
            {[res |-> "Ok", st |-> [st EXCEPT !.cwd = cmd.path]],
             [res |-> "Err", st |-> st]}
      [] cmd.cmd = "Other" ->
            \* spawn() leaves the child's standard output inherited, so the
            \* child writes to the terminal and output.stdout is empty.
            \* spawn fails; wait_with_output fails; both succeed.
            {[res |-> "Err", st |-> st],
             [res |-> "Err",
              st |-> [st EXCEPT !.term = @ \o ChildOutput(cmd.name, cmd.args)]],
             [res |-> "Ok",
              st |-> WriteAll([st EXCEPT !.term = @ \o ChildOutput(cmd.name, cmd.args)],
                              out, <<>>)]}

\* the frames of the stack
RunFrame(c, out, depth) == [f |-> "run", comb |-> c, out |-> out, depth |-> depth]

ScopeFrame == [f |-> "scope"]

InsertFrame(stage, c, orig, temp, depth) ==
    [f |-> "insert", stage |-> stage, comb |-> c, orig |-> orig, temp |-> temp,
     depth |-> depth]

\* line 96: cmd.run(&mut temp).and_then(|| ...): whether the closure holding
\* the copy, the removal and the rename is called
ClosingStepsAlways(res) == TRUE

ClosingStepsRun(res) == and_then(res)

\* a call returns st.result: the scopes it ends are left, their Files are
\* dropped, up to a call that goes on
RECURSIVE Unwind(_)
Unwind(st) ==
    IF st.result = "Panic" THEN [st EXCEPT !.stack = <<>>, !.handles = <<>>]
    ELSE IF st.stack = <<>> THEN st
    ELSE LET t == Last(st.stack) IN
         IF t.f = "scope"
         THEN Unwind([st EXCEPT !.stack = Front(@), !.handles = Front(@)])
         ELSE IF t.f = "insert" /\ t.stage = "cmd"
         THEN LET st1 == Logged(st, "inner", t.depth, st.result) IN
              IF ClosingStepsRun(st.result)
              THEN [st1 EXCEPT !.stack = Append(Front(@), [t EXCEPT !.stage = "copy"]),
                               !.result = "None"]
              ELSE Unwind([st1 EXCEPT !.stack = Front(@),
                                      !.handles = Front(Front(@))])
         ELSE st

Return(st, res) == Unwind([st EXCEPT !.result = res])

\* one step of Combinator::run on the innermost call in progress: a command
\* is run, or one operation on the file system is made.  The set of the
\* states the step can lead to: an operation of the operating system
\* succeeds or fails.
RunStep(st) ==
    LET t == Last(st.stack)
        below == Front(st.stack)
        c == t.comb
        d == t.depth
        held == Len(st.handles)
    IN
    IF t.f = "run" /\ c.comb = "Once"
    THEN {Return(Logged([o.st EXCEPT !.stack = below], "cmd", d, o.res), o.res) :
             o \in CmdRun(c.cmd, t.out, st)}
    ELSE IF t.f = "run" /\ c.comb = "Seq"
    THEN {IF and_then(o.res)
          THEN Logged(Logged([o.st EXCEPT
                                 !.stack = Append(below, RunFrame(c.rest, t.out, d + 1))],
                             "cmd", d, o.res),
                      "rest", d + 1, "None")
          ELSE Return(Logged([o.st EXCEPT !.stack = below], "cmd", d, o.res), o.res) :
             o \in CmdRun(c.cmd, t.out, st)}
    ELSE IF t.f = "run" /\ c.comb = "Redirect"
    THEN {Logged([FileCreate(st, c.file) EXCEPT
                     !.stack = below \o <<ScopeFrame, RunFrame(c.inner, held + 1, d + 1)>>],
                 "create", d, "Ok"),
          Return(Logged([st EXCEPT !.stack = below], "create", d, "Err"), "Err")}
    ELSE IF t.f = "run" /\ c.comb = "RedirectAppend"
    THEN {Logged([FileOpenAppend(st, c.file) EXCEPT
                     !.stack = below \o <<ScopeFrame, RunFrame(c.inner, held + 1, d + 1)>>],
                 "append", d, "Ok"),
          Return(Logged([st EXCEPT !.stack = below], "append", d, "Err"), "Err")}
    ELSE IF t.f = "run" /\ c.comb = "RedirectInsert"
    THEN {Return(Logged([st EXCEPT !.stack = below], "open", d, "Err"), "Err")}
         \cup IF Exists(st, c.file)
              THEN {Logged([FileOpen(st, c.file) EXCEPT
                               !.stack = Append(below,
                                   InsertFrame("create", c, held + 1, held + 2, d))],
                           "open", d, "Ok")}
              ELSE {}
    ELSE IF t.f = "insert" /\ t.stage = "create"
    THEN {Logged([FileCreate(st, TmpPath) EXCEPT
                     !.stack = below \o <<[t EXCEPT !.stage = "cmd"],
                                          RunFrame(c.inner, t.temp, d + 1)>>],
                 "temp", d, "Ok"),
          Return(Logged([st EXCEPT !.stack = below, !.handles = Front(@)],
                        "temp", d, "Err"), "Err")}
    ELSE IF t.f = "insert" /\ t.stage = "copy"
    THEN {Return(Logged([st EXCEPT !.stack = below, !.handles = Front(Front(@))],
                        "copy", d, "Err"), "Err")}
         \cup IF CopyEnds(st, t.orig, t.temp)
              THEN {Logged([IoCopy(st, t.orig, t.temp) EXCEPT
                               !.stack = Append(below, [t EXCEPT !.stage = "remove"])],
                           "copy", d, "Ok")}
              ELSE {}
    ELSE IF t.f = "insert" /\ t.stage = "remove"
    THEN {Return(Logged([st EXCEPT !.stack = below, !.handles = Front(Front(@))],
                        "remove", d, "Err"), "Err")}
         \cup IF Exists(st, c.file)
              THEN {Logged([RemoveFile(st, c.file) EXCEPT
                               !.stack = Append(below, [t EXCEPT !.stage = "rename"])],
                           "remove", d, "Ok")}
              ELSE {}
    ELSE IF t.f = "insert" /\ t.stage = "rename"
    THEN {Return(Logged([st EXCEPT !.stack = below, !.handles = Front(Front(@))],
                        "rename", d, "Err"), "Err")}
         \cup IF Exists(st, TmpPath)
              THEN {Return(Logged([Rename(st, TmpPath, c.file) EXCEPT
                                      !.stack = below, !.handles = Front(Front(@))],
                                  "rename", d, "Ok"), "Ok")}
              ELSE {}
    ELSE {}

\* the state as a record, and back
State ==
    [stack |-> stack, handles |-> handles, result |-> result, dir |-> dir,
     data |-> data, cwd |-> cwd, term |-> term, trace |-> trace]

\* Combinator::run: one step of the evaluation in progress
CombinatorRun ==
    /\ stack # <<>>
    /\ \E next \in RunStep(State) :
          LET st == Reclaim(next) IN
          /\ stack' = st.stack
          /\ handles' = st.handles
          /\ result' = st.result
          /\ dir' = st.dir
          /\ data' = st.data
          /\ cwd' = st.cwd
          /\ term' = st.term
          /\ trace' = st.trace
    /\ UNCHANGED <<root, lexVars, parseVars, loopVars>>

Running == stack # <<>>

Finished == root # None /\ stack = <<>> /\ result # "None"

(***************************************************************************)
(* The values of the variables a specification does not use.               *)
(***************************************************************************)
LexIdle ==
    /\ line = <<>>
    /\ lexer = LexerNew(<<>>)
    /\ pulled = NotYet
    /\ toks = <<>>
    /\ offs = <<>>

ParseIdle ==
    /\ tokens = <<>>
    /\ ast = NotYet
    /\ expr = NotYet

EvalIdle ==
    /\ root = None
    /\ stack = <<>>
    /\ result = "None"
    /\ handles = <<>>
    /\ trace = <<>>
    /\ dir = <<>>
    /\ data = <<>>
    /\ cwd = <<"/">>
    /\ term = <<>>

LoopIdle ==
    /\ pc = "idle"
    /\ reads = 0
    /\ eof = FALSE
    /\ before = None
    /\ script = <<>>

(***************************************************************************)
(* The tokenizer on its own: a line is chosen, Lexer::next is called       *)
(* again and again.                                                        *)
(***************************************************************************)
Chars == {"a", "+", ">", ";", "|", " "}

LexLines == SeqsUpTo(Chars, MaxLineLen)

InitLex ==
    /\ line \in LexLines
    /\ lexer = LexerNew(line)
    /\ pulled = NotYet
    /\ toks = <<>>
    /\ offs = <<>>
    /\ ParseIdle
    /\ EvalIdle
    /\ LoopIdle

\* one call of Lexer::next
Pull ==
    LET r == LexerNext(lexer) IN
    /\ lexer' = r.lexer
    /\ pulled' = r.item
    /\ toks' = IF r.item = None THEN toks ELSE Append(toks, r.item)
    /\ offs' = IF r.item = None THEN offs ELSE Append(offs, Len(line) - r.rem)
    /\ UNCHANGED <<line, parseVars, evalVars, fsVars, loopVars>>

NextLex == Pull

SpecLex == InitLex /\ [][NextLex]_vars

(***************************************************************************)
(* The parsers on their own: a token sequence is chosen and handed to      *)
(* Combinator::parse (main.rs) and to Expr::try_from (ast.rs).             *)
(***************************************************************************)
ParseTokens ==
    {Arg(EXIT), Arg(CD), Arg(PWD), Arg(<<"a">>),
     Op(<<";">>), Op(<<">">>), Op(<<">", ">">>), Op(<<">", "+">>)}

InitParse ==
    /\ tokens \in SeqsUpTo(ParseTokens, MaxTokens)
    /\ ast = NotYet
    /\ expr = NotYet
    /\ LexIdle
    /\ EvalIdle
    /\ LoopIdle

\* main.rs: Combinator::parse(tokens)
Parse ==
    /\ ast = NotYet
    /\ ast' = CombinatorParse(AsTokens(tokens))
    /\ UNCHANGED <<tokens, expr, lexVars, evalVars, fsVars, loopVars>>

\* ast.rs: Expr::try_from(lexer)
TryFrom ==
    /\ expr = NotYet
    /\ expr' = ExprTryFrom(tokens)
    /\ UNCHANGED <<tokens, ast, lexVars, evalVars, fsVars, loopVars>>

NextParse == Parse \/ TryFrom

SpecParse == InitParse /\ [][NextParse]_vars

(***************************************************************************)
(* The evaluator on its own: run is called on a Combinator with standard   *)
(* output as its sink, in a directory that holds some of the files f, g    *)
(* and myshell_tmp.txt.                                                    *)
(***************************************************************************)
EvalCmds ==
    {CmdExit, CmdCd(<<"d">>), CmdPwd, CmdNoOp, CmdOther(<<"a">>, <<>>)}

EvalFiles == {<<"f">>, <<"g">>, TmpPath}

RECURSIVE Combs(_)
Combs(n) ==
    IF n = 0 THEN {Once(c) : c \in EvalCmds}
    ELSE Combs(n - 1)
         \cup {Seq2(c, r) : c \in EvalCmds, r \in Combs(n - 1)}
         \cup {Redirect(k, r, f) : k \in RedirectKinds, r \in Combs(n - 1), f \in EvalFiles}

\* the content a file has at the start
Original(path) == <<"old">> \o path

\* the directory entries and the inodes of a directory "/" that holds paths
Enumerate(S) ==
    CHOOSE e \in [1..Cardinality(S) -> S] : \A x \in S : \E i \in DOMAIN e : e[i] = x

DirOf(paths) ==
    LET e == Enumerate(paths) IN
    [k \in {<<(<<"/">>), path>> : path \in paths} |->
        CHOOSE i \in DOMAIN e : e[i] = k[2]]

DataOf(paths) ==
    LET e == Enumerate(paths) IN [i \in DOMAIN e |-> Original(e[i])]

InitEval ==
    /\ root \in Combs(MaxDepth)
    /\ stack = <<RunFrame(root, 0, 0)>>
    /\ result = "None"
    /\ handles = <<>>
    /\ trace = <<>>
    /\ \E paths \in SUBSET EvalFiles :
          /\ dir = DirOf(paths)
          /\ data = DataOf(paths)
    /\ cwd = <<"/">>
    /\ term = <<>>
    /\ LexIdle
    /\ ParseIdle
    /\ LoopIdle

NextEval == CombinatorRun

SpecEval == InitEval /\ [][NextEval]_vars

(***************************************************************************)
(* main.rs: interactive().  Lines are typed at the prompt, in a directory  *)
(* that holds the file a; each is tokenized, parsed and evaluated.  *)
(* term holds what reached standard output since the last prompt.          *)
(***************************************************************************)
PROMPT == <<"myshell> ">>

\* str::trim
RECURSIVE TrimStart(_)
TrimStart(s) ==
    IF s # <<>> /\ is_whitespace(Head(s)) THEN TrimStart(Tail(s)) ELSE s

RECURSIVE TrimEnd(_)
TrimEnd(s) ==
    IF s # <<>> /\ is_whitespace(Last(s)) THEN TrimEnd(Front(s)) ELSE s

Trim(s) == TrimEnd(TrimStart(s))

\* the words and operators lines are made of
Pieces ==
    {<<"a">>, CD, EXIT, PWD, <<" ">>, <<";">>, <<">">>, <<">", "+">>}

RECURSIVE Concat(_)
Concat(ss) == IF ss = <<>> THEN <<>> ELSE Head(ss) \o Concat(Tail(ss))

ShellLines == {Concat(ps) : ps \in SeqsUpTo(Pieces, MaxPieces)}

ShellFiles == {<<"a">>}

Init ==
    /\ pc = "prompt"
    /\ reads = 0
    /\ eof = FALSE
    /\ before = None
    /\ script = <<>>
    /\ line = <<>>
    /\ lexer = LexerNew(<<>>)
    /\ pulled = NotYet
    /\ toks = <<>>
    /\ offs = <<>>
    /\ ParseIdle
    /\ root = None
    /\ stack = <<>>
    /\ result = "None"
    /\ handles = <<>>
    /\ trace = <<>>
    /\ dir = DirOf(ShellFiles)
    /\ data = DataOf(ShellFiles)
    /\ cwd = <<"/">>
    /\ term = <<>>

\* lines 184-185: the prompt is written and flushed, or the write fails and
\* interactive returns the error.  What the iteration before held (the
\* buffer is cleared in line 187, the tokens and the Combinator are dropped)
\* is gone.
Prompt ==
    /\ pc = "prompt"
    /\ \E ok \in BOOLEAN :
          IF ok THEN pc' = "read" /\ term' = PROMPT
          ELSE pc' = "exited_err" /\ term' = term
    /\ line' = <<>>
    /\ tokens' = <<>>
    /\ ast' = NotYet
    /\ root' = None
    /\ result' = "None"
    /\ trace' = <<>>
    /\ before' = None
    /\ UNCHANGED <<script, reads, eof, lexer, pulled, toks, offs, expr, stack, handles,
                   dir, data, cwd>>

\* lines 187-188: read_line returns a line, or 0 at the end of the input,
\* or fails
ReadLine ==
    /\ pc = "read"
    /\ reads < MaxReads
    /\ reads' = reads + 1
    /\ before' = [dir |-> dir, data |-> data, cwd |-> cwd]
    /\ \E ok \in BOOLEAN, atEnd \in BOOLEAN, typed \in ShellLines :
          /\ (eof \/ ~ok) => atEnd
          /\ atEnd => typed = <<>>
          /\ IF ok THEN pc' = "parse" /\ line' = typed /\ eof' = atEnd
             ELSE pc' = "exited_err" /\ line' = <<>> /\ eof' = eof
    /\ UNCHANGED <<script, lexer, pulled, toks, offs, parseVars, evalVars, fsVars>>

\* lines 189-200 up to the call of run: the line is trimmed, tokenized and
\* parsed; a parse error is written to standard output
ParseLine ==
    /\ pc = "parse"
    /\ LET ts == Collect(LexerNew(Trim(line)))
           parsed == CombinatorParse(AsTokens(ts))
       IN /\ tokens' = ts
          /\ ast' = parsed
          /\ IF parsed.kind = "Ok"
             THEN /\ root' = parsed.val
                  /\ stack' = <<RunFrame(parsed.val, 0, 0)>>
                  /\ pc' = "eval"
                  /\ term' = term
             ELSE IF parsed.kind = "Err"
             THEN /\ \E ok \in BOOLEAN :
                        IF ok THEN pc' = "prompt" /\ term' = term \o <<parsed.reason, "\n">>
                        ELSE pc' = "exited_err" /\ term' = term
                  /\ UNCHANGED <<root, stack>>
             ELSE /\ pc' = "panicked"
                  /\ UNCHANGED <<root, stack, term>>
    /\ UNCHANGED <<script, reads, eof, before, lexVars, expr, result, handles, trace, dir, data, cwd>>

\* lines 194-198: the match on what run returned
AfterRun ==
    /\ pc = "eval"
    /\ stack = <<>>
    /\ pc' = CASE result = "Ok" -> "prompt"
               [] result = "Err" -> "exited_err"
               [] result = "Exit" -> "exited_ok"
               [] OTHER -> "panicked"
    /\ UNCHANGED <<script, reads, eof, before, lexVars, parseVars, evalVars, fsVars>>

Next == Prompt \/ ReadLine \/ ParseLine \/ CombinatorRun \/ AfterRun

Spec == Init /\ [][Next]_vars

(***************************************************************************)
(* main.rs: batch(src).  The file named on the command line holds the      *)
(* lines of script; each line that is not empty is echoed, tokenized,      *)
(* parsed and evaluated.  term holds all that reached standard output and  *)
(* trace all that was done, a "line" event marking the echo of a line.     *)
(***************************************************************************)
BatchLines ==
    {<<>>, <<" ">>, <<" ", " ">>, <<"a">>, EXIT, PWD, CD, <<"a", ">">>}

InitBatch ==
    /\ pc = "b_open"
    /\ script \in SeqsUpTo(BatchLines, MaxReads)
    /\ reads = 0
    /\ eof = FALSE
    /\ before = None
    /\ LexIdle
    /\ ParseIdle
    /\ root = None
    /\ stack = <<>>
    /\ result = "None"
    /\ handles = <<>>
    /\ trace = <<>>
    /\ dir = DirOf(ShellFiles)
    /\ data = DataOf(ShellFiles)
    /\ cwd = <<"/">>
    /\ term = <<>>

\* line 206: File::open(src)?
BatchOpen ==
    /\ pc = "b_open"
    /\ \E ok \in BOOLEAN : pc' = IF ok THEN "b_next" ELSE "exited_err"
    /\ UNCHANGED <<script, reads, eof, before, lexVars, parseVars, evalVars, fsVars>>

\* lines 209-213: the next line of the file, if there is one and it can be
\* read; an empty line is skipped
BatchLine ==
    /\ pc = "b_next"
    /\ IF reads = Len(script)
       THEN /\ pc' = "exited_ok"
            /\ eof' = TRUE
            /\ UNCHANGED <<reads, line, before>>
       ELSE /\ reads' = reads + 1
            /\ eof' = eof
            /\ before' = [dir |-> dir, data |-> data, cwd |-> cwd]
            /\ \E ok \in BOOLEAN :
                  IF ok
                  THEN /\ line' = script[reads + 1]
                       /\ pc' = IF script[reads + 1] = <<>> THEN "b_next" ELSE "b_echo"
                  ELSE /\ line' = line
                       /\ pc' = "exited_err"
    /\ tokens' = <<>>
    /\ ast' = NotYet
    /\ root' = None
    /\ result' = "None"
    /\ UNCHANGED <<script, lexer, pulled, toks, offs, expr, stack, handles,
                   trace, fsVars>>

\* line 214: write!(stdout, "{input}")?
BatchEcho ==
    /\ pc = "b_echo"
    /\ \E ok \in BOOLEAN :
          IF ok
          THEN /\ pc' = "b_parse"
               /\ term' = term \o <<line>>
               /\ trace' = Append(trace, Event("line", reads, "None"))
          ELSE /\ pc' = "exited_err"
               /\ UNCHANGED <<term, trace>>
    /\ UNCHANGED <<script, reads, eof, before, lexVars, parseVars, root, stack,
                   result, handles, dir, data, cwd>>

\* lines 215-223 up to the call of run: the line is tokenized as it is and
\* parsed; a parse error is written to standard output
BatchParse ==
    /\ pc = "b_parse"
    /\ LET ts == Collect(LexerNew(line))
           parsed == CombinatorParse(AsTokens(ts))
       IN /\ tokens' = ts
          /\ ast' = parsed
          /\ IF parsed.kind = "Ok"
             THEN /\ root' = parsed.val
                  /\ stack' = <<RunFrame(parsed.val, 0, 0)>>
                  /\ pc' = "b_eval"
                  /\ term' = term
             ELSE IF parsed.kind = "Err"
             THEN /\ \E ok \in BOOLEAN :
                        IF ok THEN pc' = "b_next" /\ term' = term \o <<parsed.reason, "\n">>
                        ELSE pc' = "exited_err" /\ term' = term
                  /\ UNCHANGED <<root, stack>>
             ELSE /\ pc' = "panicked"
                  /\ UNCHANGED <<root, stack, term>>
    /\ UNCHANGED <<script, reads, eof, before, lexVars, expr, result, handles, trace,
                   dir, data, cwd>>

\* lines 218-222: the match on what run returned
BatchAfterRun ==
    /\ pc = "b_eval"
    /\ stack = <<>>
    /\ pc' = CASE result = "Ok" -> "b_next"
               [] result = "Err" -> "exited_err"
               [] result = "Exit" -> "exited_ok"
               [] OTHER -> "panicked"
    /\ UNCHANGED <<script, reads, eof, before, lexVars, parseVars, evalVars, fsVars>>

NextBatch ==
    BatchOpen \/ BatchLine \/ BatchEcho \/ BatchParse \/ CombinatorRun \/ BatchAfterRun

SpecBatch == InitBatch /\ [][NextBatch]_vars

(***************************************************************************)
(* Properties of the tokenizer (SpecLex).                                  *)
(***************************************************************************)

\* C1: the two characters `>+` are one RedirectInsert token: the tokenizer
\* never returns a Redirect token (`>`) directly followed, with nothing in
\* between in the line, by a Text token that starts with `+`.
C1_InsertOperatorIsOneToken ==
    \A k \in 1..(Len(toks) - 1) :
        ~ ( /\ toks[k] = Op(<<">">>)
            /\ is_arg(toks[k + 1])
            /\ Head(toks[k + 1].text) = "+"
            /\ offs[k + 1] = offs[k] + 1 )

(***************************************************************************)
(* Properties of the parsers (SpecParse).                                  *)
(***************************************************************************)

\* the commands of a main.rs Combinator, in the order run visits them
RECURSIVE MainLeaves(_)
MainLeaves(c) ==
    IF c.comb = "Once" THEN <<c.cmd>>
    ELSE IF c.comb = "Seq" THEN <<c.cmd>> \o MainLeaves(c.rest)
    ELSE MainLeaves(c.inner)

\* some redirection of c is put around a Seq
RECURSIVE WrapsSeq(_)
WrapsSeq(c) ==
    IF c.comb = "Once" THEN FALSE
    ELSE IF c.comb = "Seq" THEN WrapsSeq(c.rest)
    ELSE c.inner.comb = "Seq" \/ WrapsSeq(c.inner)

\* the tokens of `c1 > f ; c2`, with any of the three redirection operators
RedirectThenSeq ==
    /\ Len(tokens) = 5
    /\ is_arg(tokens[1]) /\ IsRedirectOp(tokens[2]) /\ is_arg(tokens[3])
    /\ tokens[4] = Op(<<";">>) /\ is_arg(tokens[5])

\* the tokens of `c1 ; c2 > g`
SeqThenRedirect ==
    /\ Len(tokens) = 5
    /\ is_arg(tokens[1]) /\ tokens[2] = Op(<<";">>) /\ is_arg(tokens[3])
    /\ IsRedirectOp(tokens[4]) /\ is_arg(tokens[5])

\* C2: a redirection binds to the command before it only: `c1 > f ; c2`
\* parses to two commands, of which the second is kept, `c1 ; c2 > g`
\* redirects c2 alone, and no redirection is put around a `;`-sequence.
C2_RedirectBindsToOneCommand ==
    ast # NotYet =>
        /\ RedirectThenSeq => ast.kind = "Ok" /\ Len(MainLeaves(ast.val)) = 2
        /\ SeqThenRedirect =>
              /\ ast.kind = "Ok"
              /\ ast.val.comb = "Seq"
              /\ ast.val.rest.comb \in RedirectKinds
              /\ ast.val.rest.inner.comb = "Once"
        /\ ast.kind = "Ok" => ~WrapsSeq(ast.val)

\* the line starts with a built-in that is given too many arguments
TooManyArguments ==
    /\ tokens # <<>>
    /\ is_arg(tokens[1])
    /\ \/ tokens[1].text \in {EXIT, PWD} /\ LeadingArgs(Tail(tokens)) >= 1
       \/ tokens[1].text = CD /\ LeadingArgs(Tail(tokens)) > 1

\* C8: `exit` or `pwd` with an argument, and `cd` with more than one, is a
\* parse error: the parser never returns a command for such a line.
C8_ArityIsAParseError ==
    (ast # NotYet /\ TooManyArguments) => ast.kind = "Err"

\* a redirection operator that follows a command word and has no Text token
\* after it
MissingRedirectTarget ==
    \E k \in 2..Len(tokens) :
        /\ \A j \in 1..(k - 1) : is_arg(tokens[j])
        /\ IsRedirectOp(tokens[k])
        /\ (k = Len(tokens) \/ ~is_arg(tokens[k + 1]))

\* C9: a redirection operator without a Text token after it is a parse
\* error: the parser neither takes an operator as the path nor panics.
C9_MissingTargetIsAParseError ==
    (ast # NotYet /\ MissingRedirectTarget) => ast.kind = "Err"

\* the tokens start with `c > f >`: a redirection operator follows a
\* redirection that is complete
SecondRedirect ==
    /\ Len(tokens) >= 4
    /\ is_arg(tokens[1]) /\ IsRedirectOp(tokens[2]) /\ is_arg(tokens[3])
    /\ IsRedirectOp(tokens[4])

\* the number of redirections of a main.rs Combinator
RECURSIVE RedirectCount(_)
RedirectCount(c) ==
    IF c.comb = "Once" THEN 0
    ELSE IF c.comb = "Seq" THEN RedirectCount(c.rest)
    ELSE 1 + RedirectCount(c.inner)

\* C10: a redirection operator after a complete redirection is a parse
\* error or starts a new Combinator (a further command of the result); it is
\* neither a second redirection of the same command nor dropped.
C10_SecondRedirectNotIgnored ==
    (ast # NotYet /\ SecondRedirect) =>
        \/ ast.kind = "Err"
        \/ /\ ast.kind = "Ok"
           /\ Len(MainLeaves(ast.val)) >= 2
           /\ RedirectCount(ast.val) <= Len(MainLeaves(ast.val))
           /\ ~WrapsSeq(ast.val)

(***************************************************************************)
(* Properties of the evaluator (SpecEval).                                 *)
(***************************************************************************)

\* the node of a Combinator at a depth: the rest of a Seq and the inner
\* Combinator of a redirection are one level down
RECURSIVE NodeAt(_, _)
NodeAt(c, depth) ==
    IF depth = 0 THEN c
    ELSE IF c.comb = "Seq" THEN NodeAt(c.rest, depth - 1)
    ELSE NodeAt(c.inner, depth - 1)

\* the places of the trace at which a command was run
CmdsRun == {i \in DOMAIN trace : trace[i].ev = "cmd"}

\* C3: a sequence is evaluated from left to right and short-circuits: the
\* rest of a Seq is evaluated exactly when its command returned Ok, and once
\* a command has returned anything else nothing more is run and that result
\* is the result of the whole evaluation.
C3_SeqShortCircuits ==
    /\ \A i, j \in CmdsRun : i < j => trace[i].depth < trace[j].depth
    /\ \A i \in CmdsRun :
          /\ NodeAt(root, trace[i].depth).comb = "Seq" =>
                (trace[i].res = "Ok" <=>
                    /\ i < Len(trace)
                    /\ trace[i + 1] = Event("rest", trace[i].depth + 1, "None"))
          /\ trace[i].res # "Ok" =>
                /\ \A j \in (i + 1)..Len(trace) : trace[j].ev = "inner"
                /\ stack = <<>>
                /\ result = trace[i].res

\* the first command of a sequence has failed or asked to exit, and the
\* evaluation has ended with the commands after it not run
C3_Witness ==
    /\ Finished
    /\ root.comb = "Seq"
    /\ result \in {"Err", "Exit"}
    /\ Cardinality(CmdsRun) = 1
    /\ Len(MainLeaves(root)) >= 2

\* the operation ev was made by the node at the depth
Made(ev, depth) == \E i \in DOMAIN trace : trace[i].ev = ev /\ trace[i].depth = depth

\* ... and it returned res
MadeWith(ev, depth, res) == \E i \in DOMAIN trace : trace[i] = Event(ev, depth, res)

Depths == {trace[i].depth : i \in DOMAIN trace}

InsertLine(cmd, path) ==
    \E s1 \in {<<>>, <<" ">>}, s2 \in {<<>>, <<" ">>} :
        Trim(line) = cmd \o s1 \o <<">", "+">> \o s2 \o path

\* the bytes of the file at path before the line was read
Was(path) == before.data[before.dir[<<before.cwd, path>>]]

\* C5: after the line `cmd >+ f`, where f held OLD and cmd succeeds with the
\* output NEW, f holds NEW followed by OLD, no other file is made or changed
\* and no temporary file is left.
C5_InsertEndToEnd ==
    \A path \in ShellFiles :
        ( /\ pc = "prompt" /\ result = "Ok"
          /\ InsertLine(<<"a">>, path) \/ InsertLine(PWD, path)
          /\ <<before.cwd, path>> \in DOMAIN before.dir ) =>
            /\ DOMAIN dir = DOMAIN before.dir
            /\ \A k \in DOMAIN dir :
                  data[dir[k]] =
                     IF k = <<before.cwd, path>>
                     THEN (IF InsertLine(PWD, path) THEN before.cwd \o <<"\n">>
                           ELSE ChildOutput(<<"a">>, <<>>)) \o Was(path)
                     ELSE before.data[before.dir[k]]

\* C6: in interactive mode a line whose evaluation returns Err does not end
\* the loop: the loop goes on to the next prompt.
C6_RuntimeErrorIsRecoverable ==
    ~(pc = "exited_err" /\ result = "Err")

\* C7: a line the parser rejects is not evaluated and does not stop the
\* interpreter: nothing of it is run and the process does not abort.
C7_ParseFailureIsRecoverable ==
    (ast # NotYet /\ ast.kind # "Ok") =>
        /\ pc # "panicked"
        /\ stack = <<>>
        /\ trace = <<>>

\* C11: the interactive loop ends at the end of the input: once a read has
\* returned zero bytes no further prompt is printed and no further read is
\* made.
C11_LoopEndsAtEndOfInput ==
    eof => pc \notin {"prompt", "read"}

(***************************************************************************)
(* Properties of batch mode (SpecBatch).                                   *)
(***************************************************************************)

\* the places of the trace at which a line of the file was echoed
LinesEchoed == {i \in DOMAIN trace : trace[i].ev = "line"}

\* C12: in batch mode the lines are processed in file order and each is
\* echoed before anything of it is done; no line is echoed after a line
\* whose evaluation returned Exit or Err, whereas a line that fails to parse
\* does not stop the processing of the file.
C12_BatchStopsAtFirstFailure ==
    /\ \A i, j \in LinesEchoed : i < j => trace[i].depth < trace[j].depth
    /\ \A i \in LinesEchoed :
          /\ trace[i].depth \in 1..reads
          /\ script[trace[i].depth] # <<>>
    /\ trace # <<>> => 1 \in LinesEchoed
    /\ term # <<>> => term[1] = script[trace[1].depth]
    /\ \A i \in DOMAIN trace :
          (trace[i].ev = "cmd" /\ trace[i].res \in {"Err", "Exit"}) =>
              \A j \in LinesEchoed : j < i
    /\ (ast # NotYet /\ ast.kind # "Ok") => pc # "panicked"

(***************************************************************************)
(* Further properties of the parsers (SpecParse).                          *)
(***************************************************************************)

\* C13: `cd` takes no or one argument: the line `cd` parses to a Cd command
\* without a path (which evaluation resolves to the home directory), and
\* `cd p` parses to the Cd command with the path p.
C13_CdWithoutArgument ==
    ast # NotYet =>
        /\ tokens = <<Arg(CD)>> =>
              /\ ast.kind = "Ok"
              /\ ast.val.comb = "Once"
              /\ ast.val.cmd.cmd = "Cd"
        /\ (Len(tokens) = 2 /\ tokens[1] = Arg(CD) /\ is_arg(tokens[2])) =>
              /\ ast.kind = "Ok"
              /\ ast.val = Once(CmdCd(tokens[2].text))

(***************************************************************************)
(* Further properties of the evaluator (SpecEval).                         *)
(***************************************************************************)

\* the output of a command run in the directory "/"
OutputOf(cmd) ==
    CASE cmd.cmd = "Pwd" -> <<"/", "\n">>
      [] cmd.cmd = "Other" -> ChildOutput(cmd.name, cmd.args)
      [] OTHER -> <<>>

\* the file at path of the directory "/" is there and holds bytes
Holds(path, bytes) ==
    /\ <<(<<"/">>), path>> \in DOMAIN dir
    /\ data[dir[<<(<<"/">>), path>>]] = bytes

\* C14: a command under `>` or `>>` writes all of its output to the file and
\* nothing to the sink around it: after `cmd > f` the file holds the output
\* alone, after `cmd >> f` what it held before followed by the output.
C14_RedirectCapturesOutput ==
    ( /\ Finished /\ result = "Ok"
      /\ root.comb \in {"Redirect", "RedirectAppend"}
      /\ root.inner.comb = "Once" ) =>
        /\ term = <<>>
        /\ \/ Holds(root.file, OutputOf(root.inner.cmd))
           \/ /\ root.comb = "RedirectAppend"
              /\ Holds(root.file, Original(root.file) \o OutputOf(root.inner.cmd))

(***************************************************************************)
(* Further properties of the tokenizer (SpecLex).                          *)
(***************************************************************************)

\* a line without its whitespace and without its operators, the longer
\* operators `>>` and `>+` looked for before `>`
RECURSIVE StripLine(_)
StripLine(s) ==
    IF s = <<>> THEN <<>>
    ELSE IF is_whitespace(Head(s)) THEN StripLine(Tail(s))
    ELSE IF Len(s) >= 2 /\ Take(s, 2) \in {<<">", ">">>, <<">", "+">>}
    THEN StripLine(Drop(s, 2))
    ELSE IF Head(s) \in {">", ";"} THEN StripLine(Tail(s))
    ELSE <<Head(s)>> \o StripLine(Tail(s))

\* the contents of the Text tokens of ts, one after the other
RECURSIVE ArgsText(_)
ArgsText(ts) ==
    IF ts = <<>> THEN <<>>
    ELSE (IF is_arg(Head(ts)) THEN Head(ts).text ELSE <<>>) \o ArgsText(Tail(ts))

\* C15: the content of each Text token is a piece of the line, taken as it
\* stands, and the contents of all Text tokens of a line, in the order
\* returned, are the line without its whitespace and its operators
\* (`>>`, `>+`, `>`, `;`).
C15_TextRoundTrip ==
    /\ \A k \in DOMAIN toks :
          is_arg(toks[k]) =>
              toks[k].text = SubSeq(line, offs[k] + 1, offs[k] + Len(toks[k].text))
    /\ pulled = None => ArgsText(toks) = StripLine(line)

\* C16: two `>` next to each other in the line are one RedirectAppend
\* token: the tokenizer never returns two Redirect tokens (`>`) that come
\* from adjacent characters of the line.
C16_AppendIsOneToken ==
    \A k \in 1..(Len(toks) - 1) :
        ~ ( /\ toks[k] = Op(<<">">>)
            /\ toks[k + 1] = Op(<<">">>)
            /\ offs[k + 1] = offs[k] + 1 )

\* the line `a>>a`, with no whitespace around the operator, has been
\* tokenized to its end: a, `>>`, a
C16_Witness ==
    /\ line = <<"a", ">", ">", "a">>
    /\ pulled = None
    /\ toks = <<Arg(<<"a">>), Op(<<">", ">">>), Arg(<<"a">>)>>

(***************************************************************************)
(* Further properties of batch mode (SpecBatch).                           *)
(***************************************************************************)

\* the line read is empty or holds whitespace only
BlankLine == \A k \in DOMAIN line : is_whitespace(line[k])

\* C17: a line of whitespace only yields no tokens, parses to NoOp and
\* evaluates to Ok: nothing is written after its echo, no file and no
\* working directory is changed, and the loop goes on to the next line; an
\* empty line is passed over with nothing parsed, written or changed.
C17_BlankLineIsNoOp ==
    /\ (line # <<>> /\ BlankLine /\ ast # NotYet) =>
          /\ tokens = <<>>
          /\ ast.kind = "Ok"
          /\ ast.val.comb = "Once"
          /\ ast.val.cmd.cmd = "NoOp"
          /\ pc \in {"b_eval", "b_next"}
          /\ Last(term) = line
          /\ [dir |-> dir, data |-> data, cwd |-> cwd] = before
          /\ stack = <<>> => result = "Ok"
    /\ (reads >= 1 /\ line = <<>>) =>
          /\ pc \in {"b_next", "exited_ok", "exited_err"}
          /\ ast = NotYet
          /\ stack = <<>>
          /\ [dir |-> dir, data |-> data, cwd |-> cwd] = before

\* a line of whitespace has been echoed, tokenized, parsed and evaluated,
\* and the loop is about to take the next line
C17_Witness ==
    /\ line # <<>>
    /\ BlankLine
    /\ pc = "b_next"
    /\ tokens = <<>>
    /\ result = "Ok"
    /\ trace # <<>> /\ Last(trace) = Event("cmd", 0, "Ok")

(***************************************************************************)
(* Properties of the tokenizer as an iterator (SpecLex).                   *)
(***************************************************************************)

\* what a lexer still has to give: its remaining input and the operator it
\* has queued
Remaining(lx) ==
    Len(lx.input) + (IF lx.delim = None THEN 0 ELSE Len(lx.delim.text))

\* C18: the tokens of a line are finitely many and the iterator does not
\* start again: a pull that returns a token leaves strictly less of input
\* and queued operator, a pull on a lexer that has nothing left returns the
\* end of the stream, and after the end of the stream every pull returns
\* the end of the stream and no token.
C18_TokenizerIsFinite ==
    [][ /\ pulled' # None => Remaining(lexer') < Remaining(lexer)
        /\ Remaining(lexer) = 0 => pulled' = None
        /\ pulled = None => (pulled' = None /\ toks' = toks /\ lexer' = lexer) ]_vars

\* a line of several tokens, one of them a queued operator, has been pulled
\* to the end of the stream
C18_Witness ==
    /\ pulled = None
    /\ Len(toks) >= 3
    /\ \E k \in 1..(Len(toks) - 1) :
          is_arg(toks[k]) /\ is_op(toks[k + 1]) /\ offs[k + 1] = offs[k] + Len(toks[k].text)

\* the characters no Text token may hold: whitespace and the characters of
\* the operators `;`, `>`, `|`
Separators == {" ", ";", ">", "|"}

\* the character of the line that follows token k, if there is one
Follows(k, c) ==
    /\ offs[k] + Len(toks[k].text) < Len(line)
    /\ line[offs[k] + Len(toks[k].text) + 1] = c

\* C19: every Text token is not empty and holds no whitespace and none of
\* `;`, `>`, `|`; the text of every operator token is one of the reserved
\* spellings; the tokens come in the order of their characters in the line,
\* and the operator that ends a Text token is the token returned next.
C19_TokensWellFormed ==
    /\ \A k \in DOMAIN toks :
          /\ is_arg(toks[k]) \/ is_op(toks[k])
          /\ toks[k].text # <<>>
          /\ toks[k].text = SubSeq(line, offs[k] + 1, offs[k] + Len(toks[k].text))
          /\ is_arg(toks[k]) =>
                \A i \in DOMAIN toks[k].text : toks[k].text[i] \notin Separators
          /\ is_op(toks[k]) =>
                \E o \in DOMAIN RESERVED_OP : toks[k].text = RESERVED_OP[o]
          /\ k < Len(toks) => offs[k] + Len(toks[k].text) <= offs[k + 1]
          /\ (is_arg(toks[k]) /\ \E c \in Separators \ {" "} : Follows(k, c)) =>
                IF k < Len(toks)
                THEN is_op(toks[k + 1]) /\ offs[k + 1] = offs[k] + Len(toks[k].text)
                ELSE lexer.delim # None /\ is_op(lexer.delim)
    /\ lexer.delim # None => (toks # <<>> /\ is_arg(toks[Len(toks)]))

\* a Text token has been returned with the operator that ended it queued,
\* and the operator has been returned by the next pull
C19_Witness ==
    /\ Len(toks) >= 2
    /\ is_arg(toks[1]) /\ Follows(1, ">")
    /\ is_op(toks[2]) /\ pulled = toks[2]
    /\ lexer.delim = None

(***************************************************************************)
(* Safety of the insert-redirect (SpecEval).                               *)
(***************************************************************************)

\* the sequence t ends with the sequence s
EndsWith(t, s) == Len(t) >= Len(s) /\ Drop(t, Len(t) - Len(s)) = s

\* all that the file at path of the directory "/" held at the start is
\* the end of that file, or the end of the temporary file
ContentKept(path) ==
    \E p \in {path, TmpPath} :
        /\ <<(<<"/">>), p>> \in DOMAIN dir
        /\ EndsWith(data[dir[<<(<<"/">>), p>>]], Original(path))

\* C20: while `cmd >+ path` is evaluated, and after it, what the file at
\* path held at the start is never lost, whichever of the steps fails: it
\* is in the file at path or it is the end of the temporary file.
C20_InsertKeepsOriginal ==
    ( /\ root # None
      /\ root.comb = "RedirectInsert"
      /\ \E i \in DOMAIN trace : trace[i] = Event("open", 0, "Ok") ) =>
        ContentKept(root.file)

=============================================================================
